---- MODULE Spec2Model ----
(***************************************************************************)
(* A model of parallelplot/plot.py: parallel_plot renders a grid of plots  *)
(* by handing one task per data item to a multiprocessing.Pool whose       *)
(* workers (_parallel_plot_worker) save each rendered figure into the      *)
(* directory CACHE_DIR; the calling process consumes the results of        *)
(* imap_unordered in completion order, reads each saved figure back and    *)
(* draws it into the sub-plot its index maps to.                           *)
(*                                                                         *)
(* The calling process is the program counter pc; every pool worker is an  *)
(* entry of workers; the pool's result queue is outq.                      *)
(***************************************************************************)
EXTENDS Integers, Sequences, FiniteSets, TLC

(* ------------------------------ bounds -------------------------------- *)

\* Largest n_rows / n_cols of an invocation explored with the worker pool.
MaxRows == 2
MaxCols == 2
\* Largest value of the argument total explored.
MaxTotal == 3
\* By how many items the data sequence may fall short of total.
MaxShortfall == 1
\* Largest value os.cpu_count() returns in the explored hosts.
MaxCpu == 2
\* Largest n_rows / n_cols explored for the index -> cell mapping alone.
MaxMapDim == 4

VARIABLES
    n_rows,       \* grid_shape[0]
    n_cols,       \* grid_shape[1]
    total,        \* the argument total (len(data) when it is None)
    dataLen,      \* number of items the data sequence yields
    switch_axis,  \* the argument switch_axis
    cleanup,      \* the argument cleanup
    cpu_count,    \* os.cpu_count()
    col_labels,   \* the argument col_labels: given or None, and its length
    row_labels,   \* the argument row_labels: given or None, and its length
    show_progress,\* the argument show_progress
    pc,           \* position of the calling process in parallel_plot
    outcome,      \* how the call ended: "none" while running
    errIndex,     \* index of the result whose consumption raised, else -1
    index,        \* the for loop's variable index: the result last taken
    cacheExists,  \* whether the directory CACHE_DIR exists
    cacheFiles,   \* content of CACHE_DIR/<key>.temp.png per key
    written,      \* keys saved by this invocation's workers
    axes,         \* images drawn into each sub-plot, bottom first
    pool,         \* "none" | "running" | "terminated"
    workers,      \* per pool process: what it is doing
    nextTask,     \* next index zip(range(total), data) hands to the pool
    execCount,    \* per index: how often a worker started the task
    failed,       \* indices whose preprocessing_fn / plot_fn raised
    outq,         \* results of finished tasks, in completion order
    nConsumed,    \* results the for loop has taken and placed
    titles,       \* per sub-plot: position of the column label set as title
    ylabels,      \* per sub-plot: position of the row label set as ylabel
    progress,     \* the count the tqdm progress bar has reached
    saveCount,    \* per key: savefig calls of this invocation's workers
    other         \* a second invocation running in the same directory

vars == <<n_rows, n_cols, total, dataLen, switch_axis, cleanup, cpu_count,
          col_labels, row_labels, show_progress,
          pc, outcome, errIndex, index, cacheExists, cacheFiles, written, axes,
          pool, workers, nextTask, execCount, failed, outq, nConsumed,
          titles, ylabels, progress, saveCount, other>>

params == <<n_rows, n_cols, total, dataLen, switch_axis, cleanup, cpu_count,
            col_labels, row_labels, show_progress>>

(* ----------------------------- helpers -------------------------------- *)

Min(a, b) == IF a <= b THEN a ELSE b

Max(a, b) == IF a >= b THEN a ELSE b

\* Keys of the cache directory: the index in "<index>.temp.png".
Keys == 0 .. (Max(MaxTotal, MaxMapDim * MaxMapDim) - 1)

\* No file under a key.
NoFile == [run |-> "none", index |-> -1]

\* The figure this invocation's task index saves.
Artifact(i) == [run |-> "this", index |-> i]

\* A file an earlier invocation left under the key index.
Stale(i) == [run |-> "stale", index |-> i]

\* A path that keeps only the last bit of the index.
CachePathParity(i) == i % 2

\* A path that leaves the index out: every task saves to one file.
CachePathShared(i) == 0

\* path = f"{CACHE_DIR}/{index}.temp.png": the key is the index itself.
CachePath(i) == i

\* A pool process that waits for a task.
Idle == [phase |-> "idle", task |-> -1]

\* plt.subplots(nrows, ncols, squeeze=False): one empty sub-plot per cell.
Subplots(rows, cols) == [rc \in (0 .. rows - 1) \X (0 .. cols - 1) |-> << >>]

NoAxes == Subplots(0, 0)

\* col_labels=None / row_labels=None.
NoLabels == [given |-> FALSE, len |-> 0]

\* A list of len labels; the label at position k is identified by k.
Labels(len) == [given |-> TRUE, len |-> len]

\* A sub-plot without title / ylabel.
Unset == -1

\* for label, ax in zip(col_labels, axes[0]): ax.set_title(label): zip stops
\* at the shorter of the two, so surplus labels and cells are passed over.
ColTitles(labels, rows, cols) ==
    [rc \in (0 .. rows - 1) \X (0 .. cols - 1) |->
        IF labels.given /\ rc[1] = 0 /\ rc[2] < labels.len
        THEN rc[2] ELSE Unset]

\* for label, ax in zip(row_labels, axes[:, 0]): ax.set_ylabel(label).
RowYlabels(labels, rows, cols) ==
    [rc \in (0 .. rows - 1) \X (0 .. cols - 1) |->
        IF labels.given /\ rc[2] = 0 /\ rc[1] < labels.len
        THEN rc[1] ELSE Unset]

\* An imshow that clears the sub-plot first, title and ylabel included.
LabelsClearedByImshow(lab, rc) == [lab EXCEPT ![<<rc.r, rc.c>>] = Unset]

\* axes[r, c].imshow(img) leaves the title and the ylabel of the sub-plot.
LabelsAfterImshow(lab, rc) == lab

\* No second invocation runs.
NoOther == [pc |-> "absent", cleanup |-> FALSE, todo |-> {}]

\* The figure a second invocation's task i saves.
OtherArtifact(i) == [run |-> "other", index |-> i]

\* A pool sized by the host alone.
PoolSizeCpus(t, cpus) == cpus

\* Pool(min(total, os.cpu_count())): the number of pool processes.
PoolSize(t, cpus) == Min(t, cpus)

\* A task for every index below total, whatever the data yields.
NumTasksTotal(t, len) == t

\* zip(range(total), data): the number of tasks handed to the pool.
NumTasks(t, len) == Min(t, len)

\* int(i / n): true division then truncation; for the non-negative
\* i and positive n of a grid this is the floor of the quotient.
IntDiv(i, n) == i \div n

\* A mapping that divides by n_cols in both traversal orders.
MapIndexOneDim(i, rows, cols, switch) ==
    IF switch
    THEN [r |-> i % cols, c |-> IntDiv(i, cols)]
    ELSE [r |-> IntDiv(i, cols), c |-> i % cols]

\* A mapping that counts the cells from one.
MapIndexOneBased(i, rows, cols, switch) ==
    IF switch
    THEN [r |-> (i + 1) % rows, c |-> IntDiv(i + 1, rows)]
    ELSE [r |-> IntDiv(i + 1, cols), c |-> (i + 1) % cols]

\* A mapping with the two traversal orders exchanged.
MapIndexSwapped(i, rows, cols, switch) ==
    IF switch
    THEN [r |-> IntDiv(i, cols), c |-> i % cols]
    ELSE [r |-> i % rows, c |-> IntDiv(i, rows)]

\* The cell of a task index (the if/else on switch_axis).
MapIndex(i, rows, cols, switch) ==
    IF switch
    THEN [r |-> i % rows, c |-> IntDiv(i, rows)]
    ELSE [r |-> IntDiv(i, cols), c |-> i % cols]

\* axes[r, c] of a (rows x cols) array with non-negative r, c: inside or
\* IndexError.
InGrid(rc, rows, cols) == rc.r < rows /\ rc.c < cols

\* axes[r, c].imshow(img): the image is added on top of the sub-plot.
Imshow(ax, rc, img) == [ax EXCEPT ![<<rc.r, rc.c>>] = Append(@, img)]

\* An opening that never calls mkdir.
OpenCacheSkipped(exists) == exists

\* os.path.exists / os.mkdir at the start: whether CACHE_DIR exists after.
OpenCache(exists) == IF ~exists THEN TRUE ELSE exists

\* The cache files after the opening: a directory that exists is left as is.
FilesAfterOpen(exists, files) ==
    IF ~exists THEN [k \in Keys |-> NoFile] ELSE files

\* An opening that refuses a directory that is already there.
OpenRaisesIfExists(exists) == exists

\* Whether the opening of the cache raises: mkdir is called only when the
\* directory is absent, nothing else looks at it.
OpenRaises(exists) == FALSE

\* A close that never removes the directory.
CloseCacheNever(clean, exists) == exists

\* if cleanup: shutil.rmtree(CACHE_DIR): whether CACHE_DIR exists after.
CloseCache(clean, exists) == IF clean THEN FALSE ELSE exists

\* A pool that loses the result of a task that raised.
PostResultDropFailure(q, res) == IF res.ok THEN Append(q, res) ELSE q

\* The pool's result queue after a worker posts a result.
PostResult(q, res) == Append(q, res)

\* An iterator that hands a failed task's result to the loop body.
ResultRaisesNever(res) == FALSE

\* next() of the imap_unordered iterator re-raises a failed task's exception.
ResultRaises(res) == ~res.ok

(* ------------------------------- Init --------------------------------- *)

\* The calling process and the pool at the call of parallel_plot: nothing
\* has been built, started or drawn.
AtCall ==
    /\ pc = "start"
    /\ outcome = "none"
    /\ errIndex = -1
    /\ index = -1
    /\ written = {}
    /\ axes = NoAxes
    /\ pool = "none"
    /\ workers = << >>
    /\ nextTask = 0
    /\ execCount = [k \in Keys |-> 0]
    /\ failed = {}
    /\ outq = << >>
    /\ nConsumed = 0
    /\ titles = NoAxes
    /\ ylabels = NoAxes
    /\ progress = 0
    /\ saveCount = [k \in Keys |-> 0]

\* The state at the call of parallel_plot: arguments, host and whatever an
\* earlier invocation left in the working directory. The call passes no
\* labels, keeps the default show_progress and runs alone.
Init ==
    /\ n_rows \in 1 .. MaxRows
    /\ n_cols \in 1 .. MaxCols
    /\ total \in 0 .. MaxTotal
    /\ dataLen \in Max(0, total - MaxShortfall) .. total
    /\ switch_axis \in BOOLEAN
    /\ cleanup \in BOOLEAN
    /\ cpu_count \in 1 .. MaxCpu
    /\ col_labels = NoLabels
    /\ row_labels = NoLabels
    /\ show_progress = TRUE
    /\ cacheExists \in BOOLEAN
    /\ cacheFiles = [k \in Keys |-> IF cacheExists THEN Stale(k) ELSE NoFile]
    /\ other = NoOther
    /\ AtCall

(* ------------------------ the calling process ------------------------- *)

\* Lines 58-86: open the cache, build the parent figure and its sub-plots.
Setup ==
    /\ pc = "start"
    /\ IF OpenRaises(cacheExists)
       THEN /\ outcome' = "ResourceError"
            /\ pc' = "done"
            /\ UNCHANGED <<cacheExists, cacheFiles, axes, titles, ylabels>>
       ELSE /\ cacheExists' = OpenCache(cacheExists)
            /\ cacheFiles' = FilesAfterOpen(cacheExists, cacheFiles)
            /\ axes' = Subplots(n_rows, n_cols)
            /\ titles' = ColTitles(col_labels, n_rows, n_cols)
            /\ ylabels' = RowYlabels(row_labels, n_rows, n_cols)
            /\ pc' = "pool"
            /\ UNCHANGED outcome
    /\ UNCHANGED <<params, errIndex, index, written, pool, workers,
                   nextTask, execCount, failed, outq, nConsumed, progress,
                   saveCount, other>>

\* Lines 88-90: Pool(n) raises ValueError for n < 1, else starts n
\* processes; imap_unordered submits the tasks.
CreatePool ==
    /\ pc = "pool"
    /\ IF PoolSize(total, cpu_count) < 1
       THEN /\ outcome' = "ValueError"
            /\ pc' = "done"
            /\ UNCHANGED <<pool, workers>>
       ELSE /\ pool' = "running"
            /\ workers' = [w \in 1 .. PoolSize(total, cpu_count) |-> Idle]
            /\ pc' = "dispatch"
            /\ UNCHANGED outcome
    /\ UNCHANGED <<params, errIndex, index, cacheExists, cacheFiles,
                   written, axes, nextTask, execCount, failed, outq,
                   nConsumed, titles, ylabels, progress, saveCount, other>>

\* A progress bar that counts nothing.
ProgressStuck(show, n) == n

\* iterator = tqdm(iterator, total=total): the bar counts an item once the
\* loop body has finished with it and asks for the next one; an item whose
\* retrieval or body raises is not counted. Without show_progress there is
\* no bar.
ProgressAfterTurn(show, n) == IF show THEN n + 1 ELSE n

\* An exception leaves the with block: Pool.__exit__ terminates the pool
\* and the exception reaches the caller; line 107 is not executed.
Raise(kind, i) ==
    /\ outcome' = kind
    /\ errIndex' = i
    /\ pool' = "terminated"
    /\ workers' = << >>
    /\ pc' = "done"
    /\ UNCHANGED <<index, cacheExists, cacheFiles, axes, nConsumed, titles,
                   ylabels, progress>>

\* Lines 95-105: one turn of the for loop over the next finished result.
ConsumeResult ==
    /\ pc = "dispatch"
    /\ outq # << >>
    /\ LET res == Head(outq)
           rc == MapIndex(res.index, n_rows, n_cols, switch_axis)
           img == cacheFiles[CachePath(res.index)]
       IN  IF ResultRaises(res)
           THEN Raise("TaskError", res.index)
           ELSE IF ~cacheExists \/ img = NoFile
           THEN Raise("FileNotFoundError", res.index)
           ELSE IF ~InGrid(rc, n_rows, n_cols)
           THEN Raise("IndexError", res.index)
           ELSE /\ axes' = Imshow(axes, rc, img)
                /\ titles' = LabelsAfterImshow(titles, rc)
                /\ ylabels' = LabelsAfterImshow(ylabels, rc)
                /\ index' = res.index
                /\ nConsumed' = nConsumed + 1
                /\ progress' = ProgressAfterTurn(show_progress, progress)
                /\ UNCHANGED <<outcome, errIndex, pool, workers, pc,
                               cacheExists, cacheFiles>>
    /\ outq' = Tail(outq)
    /\ UNCHANGED <<params, written, nextTask, execCount, failed, saveCount,
                   other>>

\* The iterator is exhausted once every submitted task's result was taken:
\* the with block ends and Pool.__exit__ terminates the pool.
ExitPool ==
    /\ pc = "dispatch"
    /\ nConsumed = NumTasks(total, dataLen)
    /\ pool' = "terminated"
    /\ workers' = << >>
    /\ pc' = "cleanup"
    /\ UNCHANGED <<params, outcome, errIndex, index, cacheExists,
                   cacheFiles, written, axes, nextTask, execCount, failed,
                   outq, nConsumed, titles, ylabels, progress, saveCount,
                   other>>

\* Lines 107-110: remove the cache if asked to, return fig, axes.
\* shutil.rmtree raises when the directory is not there.
Cleanup ==
    /\ pc = "cleanup"
    /\ cacheExists' = CloseCache(cleanup, cacheExists)
    /\ cacheFiles' = IF cacheExists' THEN cacheFiles
                     ELSE [k \in Keys |-> NoFile]
    /\ outcome' = IF cleanup /\ ~cacheExists THEN "FileNotFoundError"
                  ELSE "returned"
    /\ pc' = "done"
    /\ UNCHANGED <<params, errIndex, index, written, axes, pool, workers,
                   nextTask, execCount, failed, outq, nConsumed, titles,
                   ylabels, progress, saveCount, other>>

MainStep == Setup \/ CreatePool \/ ConsumeResult \/ ExitPool \/ Cleanup

(* --------------------------- pool processes --------------------------- *)

\* A waiting pool process takes the next task of zip(range(total), data).
WorkerTake(w) ==
    /\ pool = "running"
    /\ workers[w].phase = "idle"
    /\ nextTask < NumTasks(total, dataLen)
    /\ workers' = [workers EXCEPT ![w] = [phase |-> "render",
                                          task |-> nextTask]]
    /\ execCount' = [execCount EXCEPT ![nextTask] = @ + 1]
    /\ nextTask' = nextTask + 1
    /\ UNCHANGED <<params, pc, outcome, errIndex, index, cacheExists,
                   cacheFiles, written, axes, pool, failed, outq, nConsumed,
                   titles, ylabels, progress, saveCount, other>>

\* A worker that returns index, path without saving the figure.
PhaseSkippingSave == "return"

\* After plot_fn (line 23) the worker saves the figure (lines 25-26) and
\* only then returns (line 28).
PhaseAfterRender == "save"

\* Lines 14-23: preprocessing_fn and plot_fn run; either may raise, and the
\* pool posts the exception as the task's result.
WorkerRender(w) ==
    /\ pool = "running"
    /\ workers[w].phase = "render"
    /\ \E ok \in BOOLEAN :
          IF ok
          THEN /\ workers' = [workers EXCEPT ![w].phase = PhaseAfterRender]
               /\ UNCHANGED <<failed, outq>>
          ELSE /\ failed' = failed \cup {workers[w].task}
               /\ outq' = PostResult(outq, [index |-> workers[w].task,
                                            ok |-> FALSE])
               /\ workers' = [workers EXCEPT ![w] = Idle]
    /\ UNCHANGED <<params, pc, outcome, errIndex, index, cacheExists,
                   cacheFiles, written, axes, pool, nextTask, execCount,
                   nConsumed, titles, ylabels, progress, saveCount, other>>

\* Lines 25-26: plt.savefig(path) writes the figure under the task's key;
\* it raises when the directory is missing.
WorkerSave(w) ==
    /\ pool = "running"
    /\ workers[w].phase = "save"
    /\ LET i == workers[w].task
       IN  IF cacheExists
           THEN /\ cacheFiles' = [cacheFiles EXCEPT ![CachePath(i)] =
                                     Artifact(i)]
                /\ written' = written \cup {CachePath(i)}
                /\ saveCount' = [saveCount EXCEPT ![CachePath(i)] = @ + 1]
                /\ workers' = [workers EXCEPT ![w].phase = "return"]
                /\ UNCHANGED <<failed, outq>>
           ELSE /\ failed' = failed \cup {i}
                /\ outq' = PostResult(outq, [index |-> i, ok |-> FALSE])
                /\ workers' = [workers EXCEPT ![w] = Idle]
                /\ UNCHANGED <<cacheFiles, written, saveCount>>
    /\ UNCHANGED <<params, pc, outcome, errIndex, index, cacheExists, axes,
                   pool, nextTask, execCount, nConsumed, titles, ylabels,
                   progress, other>>

\* Line 28: return index, path; the pool posts the pair as the result.
WorkerReturn(w) ==
    /\ pool = "running"
    /\ workers[w].phase = "return"
    /\ outq' = PostResult(outq, [index |-> workers[w].task, ok |-> TRUE])
    /\ workers' = [workers EXCEPT ![w] = Idle]
    /\ UNCHANGED <<params, pc, outcome, errIndex, index, cacheExists,
                   cacheFiles, written, axes, pool, nextTask, execCount,
                   failed, nConsumed, titles, ylabels, progress, saveCount,
                   other>>

WorkerStep(w) ==
    WorkerTake(w) \/ WorkerRender(w) \/ WorkerSave(w) \/ WorkerReturn(w)

(* ------------------- a second invocation's cache use ------------------ *)

\* Lines 58-59 in another process running parallel_plot in the same
\* working directory: it creates CACHE_DIR unless it is there.
OtherOpen ==
    /\ other.pc = "start"
    /\ cacheExists' = OpenCache(cacheExists)
    /\ cacheFiles' = FilesAfterOpen(cacheExists, cacheFiles)
    /\ other' = [other EXCEPT !.pc = "run"]
    /\ UNCHANGED <<params, pc, outcome, errIndex, index, written, axes, pool,
                   workers, nextTask, execCount, failed, outq, nConsumed,
                   titles, ylabels, progress, saveCount>>

\* Lines 25-26 in a worker of the other invocation: it saves its task k
\* under the same path; when the directory is gone savefig raises and the
\* other call ends without cleaning up.
OtherSave(k) ==
    /\ other.pc = "run"
    /\ k \in other.todo
    /\ IF cacheExists
       THEN /\ cacheFiles' = [cacheFiles EXCEPT ![CachePath(k)] =
                                 OtherArtifact(k)]
            /\ other' = [other EXCEPT !.todo = @ \ {k}]
       ELSE /\ other' = [other EXCEPT !.pc = "done"]
            /\ UNCHANGED cacheFiles
    /\ UNCHANGED <<params, pc, outcome, errIndex, index, cacheExists,
                   written, axes, pool, workers, nextTask, execCount, failed,
                   outq, nConsumed, titles, ylabels, progress, saveCount>>

\* Lines 107-108 in the other invocation, once all its tasks are done.
OtherClose ==
    /\ other.pc = "run"
    /\ other.todo = {}
    /\ cacheExists' = CloseCache(other.cleanup, cacheExists)
    /\ cacheFiles' = IF cacheExists' THEN cacheFiles
                     ELSE [k \in Keys |-> NoFile]
    /\ other' = [other EXCEPT !.pc = "done"]
    /\ UNCHANGED <<params, pc, outcome, errIndex, index, written, axes, pool,
                   workers, nextTask, execCount, failed, outq, nConsumed,
                   titles, ylabels, progress, saveCount>>

OtherStep == OtherOpen \/ (\E k \in Keys : OtherSave(k)) \/ OtherClose

(* --------------------------- specifications --------------------------- *)

Next == MainStep \/ \E w \in DOMAIN workers : WorkerStep(w)

Spec == Init /\ [][Next]_vars

\* The operating system schedules the calling process and every pool
\* process: a step that stays possible is eventually taken.
Fairness ==
    /\ WF_vars(MainStep)
    /\ \A w \in 1 .. MaxCpu : WF_vars(w \in DOMAIN workers /\ WorkerStep(w))

\* Whether the call ends depends neither on files an earlier run left nor
\* on the cleanup flag (line 107 is one step either way): the fair
\* behaviours are explored from a missing cache directory with cleanup.
FairInit == Init /\ ~cacheExists /\ cleanup

FairSpec == FairInit /\ [][Next]_vars /\ Fairness

\* The for loop alone, over a full grid: every task of a (rows x cols) grid
\* has finished, in submission order, and the loop places the results.
MapInit ==
    /\ n_rows \in 1 .. MaxMapDim
    /\ n_cols \in 1 .. MaxMapDim
    /\ total = n_rows * n_cols
    /\ dataLen = total
    /\ switch_axis \in BOOLEAN
    /\ cleanup = TRUE
    /\ cpu_count = 1
    /\ col_labels = NoLabels
    /\ row_labels = NoLabels
    /\ show_progress = TRUE
    /\ other = NoOther
    /\ titles = ColTitles(col_labels, n_rows, n_cols)
    /\ ylabels = RowYlabels(row_labels, n_rows, n_cols)
    /\ progress = 0
    /\ saveCount = [k \in Keys |-> IF k < total THEN 1 ELSE 0]
    /\ pc = "dispatch"
    /\ outcome = "none"
    /\ errIndex = -1
    /\ index = -1
    /\ cacheExists = TRUE
    /\ cacheFiles = [k \in Keys |-> IF k < total THEN Artifact(k)
                                    ELSE NoFile]
    /\ written = 0 .. total - 1
    /\ axes = Subplots(n_rows, n_cols)
    /\ pool = "running"
    /\ workers = [w \in 1 .. PoolSize(total, cpu_count) |-> Idle]
    /\ nextTask = total
    /\ execCount = [k \in Keys |-> IF k < total THEN 1 ELSE 0]
    /\ failed = {}
    /\ outq = [k \in 1 .. total |-> [index |-> k - 1, ok |-> TRUE]]
    /\ nConsumed = 0

MapSpec == MapInit /\ [][ConsumeResult]_vars

\* A call that may pass column and row labels: one label fewer than the
\* grid has columns / rows, exactly as many, or one more. Labels are set before the pool exists
\* and nothing later depends on the cache an earlier run left, on cleanup,
\* on the traversal order or on a short data sequence: those are fixed.
LabelInit ==
    /\ n_rows \in 1 .. MaxRows
    /\ n_cols \in 1 .. MaxCols
    /\ total \in 0 .. MaxTotal
    /\ dataLen = total
    /\ switch_axis = FALSE
    /\ cleanup = TRUE
    /\ cpu_count \in 1 .. MaxCpu
    /\ col_labels \in {NoLabels} \cup
                      {Labels(l) : l \in n_cols - 1 .. n_cols + 1}
    /\ row_labels \in {NoLabels} \cup
                      {Labels(l) : l \in n_rows - 1 .. n_rows + 1}
    /\ show_progress = TRUE
    /\ cacheExists = FALSE
    /\ cacheFiles = [k \in Keys |-> NoFile]
    /\ other = NoOther
    /\ AtCall

LabelSpec == LabelInit /\ [][Next]_vars

\* A call with or without the progress bar. The bar only counts the turns
\* of the loop: the cache an earlier run left, cleanup, the traversal order
\* and labels are fixed.
ProgressInit ==
    /\ n_rows \in 1 .. MaxRows
    /\ n_cols \in 1 .. MaxCols
    /\ total \in 0 .. MaxTotal
    /\ dataLen \in Max(0, total - MaxShortfall) .. total
    /\ switch_axis = FALSE
    /\ cleanup = TRUE
    /\ cpu_count \in 1 .. MaxCpu
    /\ col_labels = NoLabels
    /\ row_labels = NoLabels
    /\ show_progress \in BOOLEAN
    /\ cacheExists = FALSE
    /\ cacheFiles = [k \in Keys |-> NoFile]
    /\ other = NoOther
    /\ AtCall

ProgressSpec == ProgressInit /\ [][Next]_vars

\* Two invocations in one working directory: this one, on a full-size
\* grid with as many data items as total and no cache left by an earlier
\* run, and another one that is about to start and has up to MaxTotal tasks.
TwoInit ==
    /\ n_rows = MaxRows
    /\ n_cols = MaxCols
    /\ total \in 1 .. MaxTotal
    /\ dataLen = total
    /\ switch_axis = FALSE
    /\ cleanup \in BOOLEAN
    /\ cpu_count \in 1 .. MaxCpu
    /\ col_labels = NoLabels
    /\ row_labels = NoLabels
    /\ show_progress = TRUE
    /\ cacheExists = FALSE
    /\ cacheFiles = [k \in Keys |-> NoFile]
    /\ \E t \in 1 .. MaxTotal, c \in BOOLEAN :
          other = [pc |-> "start", cleanup |-> c, todo |-> 0 .. t - 1]
    /\ AtCall

TwoNext == Next \/ OtherStep

TwoSpec == TwoInit /\ [][TwoNext]_vars

(* ------------------------------- claims ------------------------------- *)

\* The grid of the invocation, as a set of cells.
Grid == (0 .. n_rows - 1) \X (0 .. n_cols - 1)

\* The linear position of cell (r, c) in the traversal order: left to right
\* then top to bottom, or (switch_axis) top to bottom then left to right.
Position(r, c) == IF switch_axis THEN c * n_rows + r ELSE r * n_cols + c

\* The indices that were handed to the pool as tasks.
TaskIndices == {i \in 0 .. total - 1 : i < dataLen}

\* What cell (r, c) must show at the end: the artifact of the task at the
\* cell's position, nothing when there is no such task.
ExpectedCell(r, c) ==
    IF Position(r, c) \in TaskIndices
    THEN <<[run |-> "this", index |-> Position(r, c)]>>
    ELSE << >>

\* C1: when an invocation with total <= rows*cols and no failing task
\* returns, then whatever the completion order was, every sub-plot (r, c)
\* holds exactly the artifact of the task whose index maps to (r, c) in the
\* chosen traversal order (and nothing where no task maps).
C1_PlacementIndependentOfOrder ==
    (outcome = "returned" /\ total <= n_rows * n_cols /\ failed = {}) =>
        /\ DOMAIN axes = Grid
        /\ \A rc \in Grid : axes[rc] = ExpectedCell(rc[1], rc[2])

\* A 2 x 2 grid of three tasks returned, top to bottom first, over a cache
\* an earlier run had left, whose last result taken was task 0: the
\* completion order was not the submission order.
C1_Witness ==
    /\ outcome = "returned"
    /\ n_rows = 2 /\ n_cols = 2 /\ total = 3 /\ dataLen = 3
    /\ switch_axis
    /\ index = 0
    /\ axes[<<1, 0>>] = <<[run |-> "this", index |-> 1]>>
    /\ axes[<<0, 1>>] = <<[run |-> "this", index |-> 2]>>
    /\ axes[<<1, 1>>] = << >>
    /\ ~cleanup /\ cacheFiles[3].run = "stale"

\* C2: for every rows, cols >= 1 and both traversal orders, placing the
\* indices 0 .. rows*cols-1 never leaves the grid (no IndexError), never
\* puts two indices into one cell, and fills every cell once all are placed.
C2_MappingIsBijection ==
    /\ outcome # "IndexError"
    /\ DOMAIN axes = Grid
    /\ \A rc \in Grid : Len(axes[rc]) <= 1
    /\ \A i, j \in 0 .. n_rows * n_cols - 1 :
          (\E rc \in Grid : \E k, l \in 1 .. Len(axes[rc]) :
               axes[rc][k].index = i /\ axes[rc][l].index = j) => i = j
    /\ nConsumed = n_rows * n_cols =>
          \A rc \in Grid : Len(axes[rc]) = 1

\* A 3 x 4 grid, top to bottom first, with all 12 indices placed.
C2_Witness ==
    /\ n_rows = 3 /\ n_cols = 4 /\ switch_axis
    /\ nConsumed = 12
    /\ \A rc \in Grid : Len(axes[rc]) = 1

\* The cell of index i in the 2 x 3 example of the specification.
RowMajorExample ==
    [i \in 0 .. 5 |-> CASE i = 0 -> <<0, 0>> [] i = 1 -> <<0, 1>>
                        [] i = 2 -> <<0, 2>> [] i = 3 -> <<1, 0>>
                        [] i = 4 -> <<1, 1>> [] i = 5 -> <<1, 2>>]

ColumnMajorExample ==
    [i \in 0 .. 5 |-> CASE i = 0 -> <<0, 0>> [] i = 1 -> <<1, 0>>
                        [] i = 2 -> <<0, 1>> [] i = 3 -> <<1, 1>>
                        [] i = 4 -> <<0, 2>> [] i = 5 -> <<1, 2>>]

\* C3: an index i is drawn into the cell (r, c) with i = r*cols + c and
\* c < cols when switch_axis is false (col = i mod cols, row = floor(i/cols))
\* and with i = c*rows + r and r < rows when it is true (col = floor(i/rows),
\* row = i mod rows); for rows = 2, cols = 3 these are the listed cells.
C3_MappingFormula ==
    \A rc \in DOMAIN axes : \A k \in 1 .. Len(axes[rc]) :
        LET i == axes[rc][k].index
            r == rc[1]
            c == rc[2]
        IN  /\ ~switch_axis => (i = r * n_cols + c /\ c < n_cols)
            /\ switch_axis => (i = c * n_rows + r /\ r < n_rows)
            /\ (n_rows = 2 /\ n_cols = 3) =>
                  rc = IF switch_axis THEN ColumnMajorExample[i]
                       ELSE RowMajorExample[i]

\* The 2 x 3 example, top to bottom first, with all six indices placed.
C3_Witness ==
    /\ n_rows = 2 /\ n_cols = 3 /\ switch_axis
    /\ nConsumed = 6
    /\ axes[<<0, 1>>] = <<[run |-> "this", index |-> 2]>>

\* C4: when the call has returned normally, the cache directory and all
\* its files are gone if cleanup is true, and the directory still exists
\* with every artifact this invocation's workers wrote if cleanup is false.
C4_CacheAfterNormalReturn ==
    outcome = "returned" =>
        IF cleanup
        THEN ~cacheExists /\ \A k \in Keys : cacheFiles[k].run = "none"
        ELSE /\ cacheExists
             /\ \A k \in written :
                   cacheFiles[k] = [run |-> "this", index |-> k]

\* A returned call with cleanup that had written artifacts: nothing is left.
C4_Witness ==
    /\ outcome = "returned"
    /\ cleanup
    /\ Cardinality(written) >= 2
    /\ ~cacheExists

\* C5 (as claimed): once a call has ended by raising a task's failure with
\* cleanup true, the cache directory does not exist.
C5_CacheClosedOnFailure ==
    (pc = "done" /\ outcome = "TaskError" /\ cleanup) => ~cacheExists

\* C6 (as claimed): with total > rows*cols no pool is created, no task is
\* ever started, and the call ends with a ConfigError.
C6_ConfigErrorBeforeWorkers ==
    total > n_rows * n_cols =>
        /\ pool = "none"
        /\ \A k \in Keys : execCount[k] = 0
        /\ pc = "done" => outcome = "ConfigError"

\* The pool processes that are executing a task.
Busy == {w \in DOMAIN workers : workers[w].phase # "idle"}

\* C7: in every state the pool has at most total and at most cpu_count
\* processes, and so at most that many tasks execute at the same time.
C7_BoundedConcurrency ==
    /\ Cardinality(DOMAIN workers) <= total
    /\ Cardinality(DOMAIN workers) <= cpu_count
    /\ Cardinality(Busy) <= total
    /\ Cardinality(Busy) <= cpu_count

\* total = 1 on a host with two processors: the one task is executing.
C7_Witness ==
    /\ total = 1 /\ cpu_count = 2
    /\ Cardinality(Busy) = 1

\* C8: no task is started twice; a call in which a task failed never
\* returns a canvas, and when every index fits the grid it ends by raising
\* the failure of a failed task; taking a failed result raises that task's
\* failure at once; and no sub-plot changes in or after the step that
\* observes it.
C8_FailureAbortsAssembly ==
    /\ [](\A k \in Keys : execCount[k] <= 1)
    /\ []((pc = "done" /\ failed # {}) => outcome # "returned")
    /\ []((pc = "done" /\ failed # {} /\ total <= n_rows * n_cols) =>
             (outcome = "TaskError" /\ errIndex \in failed))
    /\ [](outcome = "TaskError" => (pc = "done" /\ errIndex \in failed))
    /\ [][(outq # << >> /\ ~Head(outq).ok /\ outq' = Tail(outq)) =>
             (outcome' = "TaskError" /\ errIndex' = Head(outq).index)]_vars
    /\ [][outcome' = "TaskError" => axes' = axes]_vars

\* A call that raised a task's failure after one result had been placed,
\* with tasks that were never started.
C8_Witness ==
    /\ outcome = "TaskError"
    /\ nConsumed >= 1
    /\ nextTask < total
    /\ execCount[errIndex] = 1

\* C9: under fair scheduling every invocation ends (returns or raises).
C9_Terminates == <>(pc = "done")

\* A call that ended by raising a task's failure while another task was
\* still in flight (started, its result not yet posted).
C9_Witness ==
    /\ pc = "done"
    /\ outcome = "TaskError"
    /\ nextTask > nConsumed + 1 + Len(outq)

\* C10 (as claimed): opening the cache while the directory already exists
\* raises a ResourceError.
C10_ExistingCacheRejected ==
    [][(pc = "start" /\ cacheExists) => outcome' = "ResourceError"]_vars

\* C10 (amended): opening the cache never raises because the directory
\* already exists: an existing directory is reused with its files as they
\* are, and a missing one is created.
C10_ExistingCacheReused ==
    [][pc = "start" =>
          /\ outcome' = "none"
          /\ pc' = "pool"
          /\ cacheExists'
          /\ cacheExists => cacheFiles' = cacheFiles]_vars

\* The pool is about to be created over a directory that still holds the
\* files of an earlier run.
C10_Witness ==
    /\ pc = "pool"
    /\ cacheExists
    /\ cacheFiles[0] = [run |-> "stale", index |-> 0]

\* Whether a given label list has a length other than the grid's.
LabelMismatch ==
    \/ col_labels.given /\ col_labels.len # n_cols
    \/ row_labels.given /\ row_labels.len # n_rows

\* C11 (as claimed): when col_labels is given with length # cols or
\* row_labels with length # rows, the cache directory is never created, no
\* pool process is started, and the call ends with a ConfigError.
C11_LabelMismatchRejected ==
    LabelMismatch =>
        /\ ~cacheExists
        /\ pool = "none"
        /\ pc = "done" => outcome = "ConfigError"

\* The draws of an image of index i: a sub-plot and a layer in it.
Placements(i) ==
    {d \in UNION {{<<rc, k>> : k \in 1 .. Len(axes[rc])} : rc \in DOMAIN axes} :
        axes[d[1]][d[2]].index = i}

\* C12 (as claimed): when the call has returned, every index below total
\* was started by exactly one worker task and its artifact was placed
\* exactly once, also when the data yields fewer than total items.
C12_EveryIndexBelowTotal ==
    outcome = "returned" =>
        \A i \in 0 .. total - 1 :
            execCount[i] = 1 /\ Cardinality(Placements(i)) = 1

\* C12 (amended): when the call has returned, every index below
\* min(total, number of items the data yields) was started by exactly one
\* worker task and its artifact was placed exactly once; an index at or
\* beyond the number of items was never started and nothing was placed
\* for it.
C12_EveryTaskOnce ==
    outcome = "returned" =>
        \A i \in 0 .. total - 1 :
            IF i < dataLen
            THEN /\ execCount[i] = 1
                 /\ Cardinality(Placements(i)) = 1
                 /\ \A d \in Placements(i) :
                       axes[d[1]][d[2]] = [run |-> "this", index |-> i]
            ELSE execCount[i] = 0 /\ Placements(i) = {}

\* A returned call whose data yielded two items for total = 3.
C12_Witness ==
    /\ outcome = "returned"
    /\ total = 3 /\ dataLen = 2
    /\ Cardinality(Placements(1)) = 1
    /\ execCount[2] = 0

\* The pool processes that are about to call savefig.
Saving == {w \in DOMAIN workers : workers[w].phase = "save"}

\* C13: within one invocation no cache key is written twice and no two
\* workers are about to write the same key; a file of this invocation
\* under key k was written by task k, and a task that has saved has written
\* its own key once.
C13_NoWriteWriteConflict ==
    /\ \A k \in Keys : saveCount[k] <= 1
    /\ \A v, w \in Saving :
          v # w => CachePath(workers[v].task) # CachePath(workers[w].task)
    /\ \A w \in Saving : saveCount[CachePath(workers[w].task)] = 0
    /\ \A k \in Keys :
          cacheFiles[k].run = "this" => (cacheFiles[k].index = k /\ k \in written)
    /\ \A k \in Keys : saveCount[k] = 1 <=> k \in written
    /\ \A w \in DOMAIN workers :
          workers[w].phase = "return" => saveCount[workers[w].task] = 1

\* Two pool processes are about to save at the same moment and a third
\* task has already saved.
C13_Witness ==
    /\ Cardinality(Saving) = 2
    /\ saveCount[0] = 1

\* Every layer drawn into a sub-plot.
Layers == UNION {{<<rc, k>> : k \in 1 .. Len(axes[rc])} : rc \in DOMAIN axes}

\* C14: a result (index, path) is in the result queue only when the file
\* under the index's key holds the figure this invocation's task saved, so
\* the loop never misses a file and every image it has drawn is the one
\* this invocation's task of that index wrote, never one an earlier run left.
C14_ReadsOwnArtifact ==
    /\ \A n \in 1 .. Len(outq) :
          outq[n].ok =>
              /\ cacheExists
              /\ cacheFiles[outq[n].index] =
                     [run |-> "this", index |-> outq[n].index]
              /\ saveCount[outq[n].index] = 1
    /\ outcome # "FileNotFoundError"
    /\ \A d \in Layers :
          /\ axes[d[1]][d[2]].run = "this"
          /\ saveCount[axes[d[1]][d[2]].index] = 1

\* Over a directory that still holds files of an earlier run, one image
\* has been drawn and another result is waiting.
C14_Witness ==
    /\ cacheFiles[2].run = "stale"
    /\ nConsumed >= 1
    /\ Len(outq) >= 1 /\ outq[1].ok

\* C15: when total < rows*cols, a sub-plot whose position in the traversal
\* order is not an index below total is blank in every state, from the
\* creation of the sub-plots to the end of the call, in both orders.
C15_UnfilledCellsStayBlank ==
    total < n_rows * n_cols =>
        \A rc \in DOMAIN axes :
            Position(rc[1], rc[2]) >= total => axes[rc] = << >>

\* A returned 2 x 2 grid of two tasks, top to bottom first: the first
\* column is drawn, the second is blank.
C15_Witness ==
    /\ outcome = "returned"
    /\ n_rows = 2 /\ n_cols = 2 /\ total = 2 /\ dataLen = 2
    /\ switch_axis
    /\ Len(axes[<<0, 0>>]) = 1 /\ Len(axes[<<1, 0>>]) = 1
    /\ axes[<<0, 1>>] = << >> /\ axes[<<1, 1>>] = << >>

\* The parent figure's sub-plots: what is drawn and how they are labelled.
canvas == <<axes, titles, ylabels>>

\* A step of a pool process: the pool runs and a process changes what it does.
IsWorkerStep == pool = "running" /\ pool' = "running" /\ workers' # workers

\* C16: no step of a pool process changes a sub-plot (its images, title or
\* ylabel); titles and ylabels are set in the one step that creates the
\* sub-plots, before the pool exists and before any task has started, and
\* never change afterwards; with as many labels as columns / rows, column
\* label c is the title of sub-plot (0, c) and row label r the ylabel of
\* sub-plot (r, 0), and no other sub-plot has one.
C16_CanvasOwnedByAssembler ==
    /\ [][IsWorkerStep => canvas' = canvas]_vars
    /\ [][pc # "start" => (titles' = titles /\ ylabels' = ylabels)]_vars
    /\ [](pc = "start" =>
             (pool = "none" /\ nextTask = 0 /\ outq = << >> /\ titles = << >>))
    /\ []((pc # "start" /\ col_labels.given /\ col_labels.len = n_cols) =>
             \A rc \in Grid :
                 titles[rc] = IF rc[1] = 0 THEN rc[2] ELSE -1)
    /\ []((pc # "start" /\ row_labels.given /\ row_labels.len = n_rows) =>
             \A rc \in Grid :
                 ylabels[rc] = IF rc[2] = 0 THEN rc[1] ELSE -1)
    /\ []((pc # "start" /\ ~col_labels.given) =>
             \A rc \in Grid : titles[rc] = -1)

\* A returned, fully drawn 2 x 2 grid with two column and two row labels.
C16_Witness ==
    /\ outcome = "returned"
    /\ n_rows = 2 /\ n_cols = 2 /\ total = 3
    /\ col_labels = [given |-> TRUE, len |-> 2]
    /\ row_labels = [given |-> TRUE, len |-> 2]
    /\ nConsumed = 3
    /\ titles[<<0, 1>>] = 1 /\ ylabels[<<1, 0>>] = 1

\* The tasks that have finished, by returning or by raising: the results
\* the loop has placed, the one whose turn raised, and those still waiting.
FinishedCount ==
    Cardinality(Layers) + (IF errIndex # -1 THEN 1 ELSE 0) + Len(outq)

\* C17 (as claimed): with show_progress, when the call has ended the
\* progress count equals the number of tasks that completed or failed.
C17_CountsEveryFinishedTask ==
    (pc = "done" /\ show_progress) => progress = FinishedCount

\* C17 (amended): with show_progress the progress count is advanced exactly
\* once for every result the loop has taken and placed, and for nothing
\* else: it never decreases, moves by at most one per step, equals the
\* number of images drawn in every state and the number of tasks when the
\* call returns; a failed task's result, a result whose placement raises
\* and results still waiting when the call raises are not counted. Without
\* show_progress nothing is counted.
C17_CountsPlacedResults ==
    /\ [](show_progress => progress = Cardinality(Layers))
    /\ [](~show_progress => progress = 0)
    /\ [][progress' = progress \/ progress' = progress + 1]_vars
    /\ []((outcome = "returned" /\ show_progress) =>
             progress = Cardinality(TaskIndices))
    /\ []((pc = "done" /\ errIndex # -1 /\ show_progress) =>
             progress < FinishedCount)

\* A call with the progress bar that raised a task's failure after two
\* results were placed: the bar stands at two, three tasks had finished.
C17_Witness ==
    /\ show_progress
    /\ outcome = "TaskError"
    /\ progress = 2
    /\ FinishedCount = 3

\* C18: the cache directory exists whenever the pool runs (a worker may
\* save) and whenever the loop may take a result (the assembler may read);
\* it is created only by the opening step, before the pool exists, and
\* removed only by the cleanup step, with the pool terminated and every
\* task's result taken.
C18_CacheOutlivesPool ==
    /\ [](pool = "running" => cacheExists)
    /\ [](pc = "dispatch" => cacheExists)
    /\ [][(~cacheExists /\ cacheExists') =>
             (pc = "start" /\ pool = "none" /\ pool' = "none")]_vars
    /\ [][(cacheExists /\ ~cacheExists') =>
             /\ pc = "cleanup" /\ cleanup
             /\ pool = "terminated"
             /\ workers = << >>
             /\ Cardinality(Layers) = Cardinality(TaskIndices)]_vars

\* In a directory the invocation created itself, one worker is about to
\* save while a saved result waits to be read.
C18_Witness ==
    /\ cacheExists
    /\ cacheFiles[2].run = "none"
    /\ Saving # {}
    /\ Len(outq) >= 1 /\ outq[1].ok

\* The indices whose artifact a worker of this invocation has saved and the
\* loop has not read yet: a worker is about to return it, or its result
\* waits in the queue.
AwaitingRead ==
    {workers[w].task : w \in {v \in DOMAIN workers :
                                  workers[v].phase = "return"}}
    \cup {outq[n].index : n \in {m \in 1 .. Len(outq) : outq[m].ok}}

\* C19 (as claimed): with a second invocation running in the same working
\* directory, every artifact a worker of this invocation has saved stays
\* readable, with this invocation's content, until the loop has read it.
C19_InvocationsIsolated ==
    \A i \in AwaitingRead :
        cacheExists /\ cacheFiles[i] = [run |-> "this", index |-> i]

====
